---- MODULE Spec2Model ----
(***************************************************************************)
(* Model of nebullvm's multi-compiler optimizer                            *)
(* (nebullvm/optimizers/multi_compiler.py) and of the ONNX inference       *)
(* learners' predict (nebullvm/inference_learners/onnx.py).                *)
(*                                                                         *)
(* Python values are modelled as follows.                                  *)
(*   None               the string "None"                                  *)
(*   Optional[List]     a record [isNone, items]                           *)
(*   a score (float)    a natural number 0..MaxScore; np.inf is Inf, which *)
(*                      is larger than every finite score                  *)
(*   a learner          a record [cls, pos]: the class of the optimizer    *)
(*                      that built it and the position of that attempt in  *)
(*                      discovery order; None is NoneLearner               *)
(*   a dict             a function whose domain is the set of keys         *)
(***************************************************************************)
EXTENDS Integers, Sequences, FiniteSets, TLC

\* Largest number of caller-supplied extra optimizers.
MaxExtra == 2
\* Largest finite score a metric returns.
MaxScore == 1

None == "None"

\* np.inf (multi_compiler.py line 96): greater than every finite score.
Inf == MaxScore + 1

FiniteScores == 0..MaxScore

\* The members of the ModelCompiler enumeration used by the module.
ModelCompiler == {"ONNX_RUNTIME", "APACHE_TVM", "TENSOR_RT", "OPENVINO"}

COMPILER_TO_OPTIMIZER_MAP ==
    ("APACHE_TVM" :> "ApacheTVMOptimizer")
    @@ ("OPENVINO" :> "OpenVinoOptimizer")
    @@ ("TENSOR_RT" :> "TensorRTOptimizer")
    @@ ("ONNX_RUNTIME" :> "ONNXOptimizer")

\* Classes of the optimizers a caller may pass as extra_optimizers.
ExtraOptimizerClasses == {"CustomOptimizer"}

\* What the machine offers: tvm importable, CUDA device, Intel CPU.
Hardware == [tvm : BOOLEAN, cuda : BOOLEAN, intel : BOOLEAN]

select_compilers_from_hardware(h) ==
    LET c1 == <<"ONNX_RUNTIME">>
        c2 == IF h.tvm THEN Append(c1, "APACHE_TVM") ELSE c1
        c3 == IF h.cuda THEN Append(c2, "TENSOR_RT") ELSE c2
        c4 == IF h.intel THEN Append(c3, "OPENVINO") ELSE c3
    IN  c4

NoneList == [isNone |-> TRUE, items |-> <<>>]

SomeList(s) == [isNone |-> FALSE, items |-> s]

NoneLearner == [cls |-> None, pos |-> 0]

VARIABLES
    hardware,          \* what select_compilers_from_hardware found at construction
    ignore_compilers,  \* the ignore_compilers argument of __init__
    compilers,         \* self.compilers
    extra_optimizers,  \* self.extra_optimizers
    debug_file,        \* self.debug_file
    debug_mode_attr,   \* whether the instance has an attribute debug_mode
    pc,                \* "idle", "optimize", "optimize_done", "custom" or "custom_done"
    return_all,        \* the return_all argument of optimize_on_custom_metric
    optimized_models,  \* the local list optimized_models of the running call
    attempts,          \* one record per backend attempt made by the running call
    result,            \* what the call returned or raised
    debug_log,         \* the debug-log file
    learner,           \* an ONNX inference learner
    prediction,        \* the outcome of the last predict call on it
    calls,             \* per concurrent optimize call: its place in the sweep and in _save_info
    saved              \* the scored attempts saved to the debug-log file, in write order

opt_vars ==
    <<hardware, ignore_compilers, compilers, extra_optimizers, debug_file,
      debug_mode_attr, pc, return_all, optimized_models, attempts, result,
      debug_log>>

learner_vars == <<learner, prediction>>

log_vars == <<calls, saved>>

vars == <<opt_vars, learner_vars, log_vars>>

(***************************************************************************)
(* MultiCompilerOptimizer.__init__                                         *)
(***************************************************************************)

\* The values ignore_compilers may take: None or a list of compilers.
IgnoreArgs == {NoneList} \cup {[isNone |-> FALSE, items |-> s] : s \in SUBSET ModelCompiler}

RECURSIVE SeqsUpTo(_, _)
SeqsUpTo(S, n) ==
    IF n = 0
    THEN {<<>>}
    ELSE LET shorter == SeqsUpTo(S, n - 1)
         IN  shorter \cup {Append(s, x) : s \in shorter, x \in S}

\* The values extra_optimizers may take: None or a list of optimizers.
ExtraArgs == {NoneList} \cup {SomeList(s) : s \in SeqsUpTo(ExtraOptimizerClasses, MaxExtra)}

\* `ignore_compilers or []`: None and the empty list both give no compiler.
IgnoredSet(ignore) == IF ignore.isNone THEN {} ELSE ignore.items

InitCompilers(h, ignore) ==
    SelectSeq(select_compilers_from_hardware(h),
              LAMBDA compiler : compiler \notin IgnoredSet(ignore))

InitDebugFile(debug_mode) == IF debug_mode THEN "uuid_debug_file" ELSE None

\* BaseOptimizer.__init__ is not among the sources: whether the instance
\* carries an attribute debug_mode is left open.
BaseOptimizerAttrs == {"unset", "set"}

NoResult == [kind |-> "none", learner |-> NoneLearner, list |-> <<>>, exc |-> None]

EmptyFile == [exists |-> FALSE, dict |-> [k \in {} |-> ""]]

NoLearnerObj == [framework |-> None, input_names |-> <<>>, output_names |-> <<>>]

NoPrediction == [kind |-> "none", inputs |-> <<>>, fed |-> <<>>, outputs |-> <<>>]

\* The optimize calls that may run at the same time on one instance.
Callers == {1, 2}

\* A call that has not attempted anything: `pos` backends done, not inside
\* _save_info, nothing read.
IdleCall ==
    [pos |-> 0, phase |-> "idle", old_dict |-> [k \in {} |-> ""],
     optimizer |-> None, latency |-> 0]

NoCalls == [w \in Callers |-> IdleCall]

InitOptimizer ==
    /\ hardware \in Hardware
    /\ ignore_compilers \in IgnoreArgs
    /\ extra_optimizers \in ExtraArgs
    /\ compilers = InitCompilers(hardware, ignore_compilers)
    /\ \E debug_mode \in BOOLEAN : debug_file = InitDebugFile(debug_mode)
    /\ debug_mode_attr \in BaseOptimizerAttrs
    /\ pc = "idle"
    /\ return_all = FALSE
    /\ optimized_models = <<>>
    /\ attempts = <<>>
    /\ result = NoResult
    /\ debug_log = EmptyFile

Init ==
    /\ InitOptimizer
    /\ learner = NoLearnerObj
    /\ prediction = NoPrediction
    /\ calls = NoCalls
    /\ saved = <<>>

(***************************************************************************)
(* The single-compiler runner                                              *)
(***************************************************************************)

\* What a backend's optimize followed by the metric can do: raise, or give
\* a learner with a finite score.
BackendOutcomes ==
    {[raises |-> TRUE, score |-> 0]}
    \cup {[raises |-> FALSE, score |-> s] : s \in FiniteScores}

\* f"{score}" of a float: "inf" for np.inf, "<n>.0" for a whole number.
ScoreStr(score) == IF score = Inf THEN "inf" ELSE ToString(score) \o ".0"

\* _save_info that drops what the file already held.
_save_info_fresh_dict(optimizer, score, file) ==
    [exists |-> TRUE, dict |-> [k \in {optimizer} |-> ScoreStr(score)]]

_save_info(optimizer, score, file) ==
    LET old_dict == IF file.exists THEN file.dict ELSE [k \in {} |-> ""]
        new_dict == [k \in DOMAIN old_dict \cup {optimizer} |->
                        IF k = optimizer THEN ScoreStr(score) ELSE old_dict[k]]
    IN  [exists |-> TRUE, dict |-> new_dict]

\* _optimize_with_optimizer whose except branch leaves the latency at 0.
_optimize_with_optimizer_zero_latency(optimizer, pos, metric_func, dbg_file, out, file) ==
    LET metric == IF metric_func = None
                  THEN "compute_optimized_running_time"
                  ELSE metric_func
        pair == IF out.raises
                THEN [learner |-> NoneLearner, score |-> 0]
                ELSE [learner |-> [cls |-> optimizer, pos |-> pos],
                      score |-> out.score]
    IN  [pair |-> pair,
         file |-> IF dbg_file # None
                  THEN _save_info(optimizer, pair.score, file)
                  ELSE file,
         attempt |-> [cls |-> optimizer, metric |-> metric, raised |-> out.raises,
                      learner |-> pair.learner, score |-> pair.score]]

\* One run of _optimize_with_optimizer on the optimizer of class `optimizer`
\* attempted at position `pos`; `out` is what the backend and the metric do.
\* Gives the returned pair, the debug-log file afterwards and a record of the
\* attempt: the optimizer's class, the metric applied, whether the try block
\* raised, and the pair returned.
_optimize_with_optimizer(optimizer, pos, metric_func, dbg_file, out, file) ==
    LET metric == IF metric_func = None
                  THEN "compute_optimized_running_time"
                  ELSE metric_func
        pair == IF out.raises
                THEN [learner |-> NoneLearner, score |-> Inf]
                ELSE [learner |-> [cls |-> optimizer, pos |-> pos],
                      score |-> out.score]
    IN  [pair |-> pair,
         file |-> IF dbg_file # None
                  THEN _save_info(optimizer, pair.score, file)
                  ELSE file,
         attempt |-> [cls |-> optimizer, metric |-> metric, raised |-> out.raises,
                      learner |-> pair.learner, score |-> pair.score]]

_optimize_with_compiler(compiler, pos, metric_func, dbg_file, out, file) ==
    _optimize_with_optimizer(COMPILER_TO_OPTIMIZER_MAP[compiler], pos,
                             metric_func, dbg_file, out, file)

\* An ascending sort that puts an element before its equals.
InsertByScoreBeforeEquals(x, sorted) ==
    LET n == Cardinality({i \in 1..Len(sorted) : sorted[i].score < x.score})
    IN  SubSeq(sorted, 1, n) \o <<x>> \o SubSeq(sorted, n + 1, Len(sorted))

\* list.sort(key=lambda x: x[1]): a stable ascending sort by score.
InsertByScore(x, sorted) ==
    LET n == Cardinality({i \in 1..Len(sorted) : sorted[i].score <= x.score})
    IN  SubSeq(sorted, 1, n) \o <<x>> \o SubSeq(sorted, n + 1, Len(sorted))

RECURSIVE SortByScore(_)
SortByScore(s) ==
    IF s = <<>>
    THEN <<>>
    ELSE InsertByScore(s[Len(s)], SortByScore(SubSeq(s, 1, Len(s) - 1)))

(***************************************************************************)
(* MultiCompilerOptimizer.optimize                                         *)
(***************************************************************************)

\* The extra optimizers the sweep visits: none when extra_optimizers is None.
ExtraItems == IF extra_optimizers.isNone THEN <<>> ELSE extra_optimizers.items

\* Number of backends a sweep attempts: the probed ones, then the extra ones.
NumCandidates == Len(compilers) + Len(ExtraItems)

Returned(l) == [kind |-> "return", learner |-> l, list |-> <<>>, exc |-> None]

ReturnedList(l) == [kind |-> "return_list", learner |-> NoneLearner, list |-> l, exc |-> None]

Raised(e) == [kind |-> "raise", learner |-> NoneLearner, list |-> <<>>, exc |-> e]

\* optimized_models.sort(...); return optimized_models[0][0]
SortAndReturnFirst(models) ==
    LET sorted == SortByScore(models)
    IN  IF Len(sorted) = 0
        THEN Raised("IndexError")
        ELSE Returned(sorted[1].learner)

CallOptimize ==
    /\ pc = "idle"
    /\ pc' = "optimize"
    /\ UNCHANGED <<hardware, ignore_compilers, compilers, extra_optimizers,
                   debug_file, debug_mode_attr, return_all, optimized_models,
                   attempts, result, debug_log, learner_vars, log_vars>>

\* The comprehension over self.compilers without the runner's try/except:
\* a backend's exception leaves optimize.
OptimizeCompilerStepNoCatch ==
    /\ pc = "optimize"
    /\ Len(optimized_models) < Len(compilers)
    /\ \E out \in BackendOutcomes :
         LET pos == Len(optimized_models) + 1
             r == _optimize_with_compiler(compilers[pos], pos, None,
                                          debug_file, out, debug_log)
         IN  IF out.raises
             THEN /\ result' = Raised("BackendError")
                  /\ pc' = "optimize_done"
                  /\ UNCHANGED <<optimized_models, attempts, debug_log>>
             ELSE /\ optimized_models' = Append(optimized_models, r.pair)
                  /\ attempts' = Append(attempts, r.attempt)
                  /\ debug_log' = r.file
                  /\ UNCHANGED <<pc, result>>
    /\ UNCHANGED <<hardware, ignore_compilers, compilers, extra_optimizers,
                   debug_file, debug_mode_attr, return_all, learner_vars, log_vars>>

\* One element of the comprehension over self.compilers (lines 159-169).
OptimizeCompilerStep ==
    /\ pc = "optimize"
    /\ Len(optimized_models) < Len(compilers)
    /\ \E out \in BackendOutcomes :
         LET pos == Len(optimized_models) + 1
             r == _optimize_with_compiler(compilers[pos], pos, None,
                                          debug_file, out, debug_log)
         IN  /\ optimized_models' = Append(optimized_models, r.pair)
             /\ attempts' = Append(attempts, r.attempt)
             /\ debug_log' = r.file
    /\ UNCHANGED <<hardware, ignore_compilers, compilers, extra_optimizers,
                   debug_file, debug_mode_attr, pc, return_all, result,
                   learner_vars, log_vars>>

\* One element of the comprehension over self.extra_optimizers (lines 170-181).
OptimizeExtraStep ==
    /\ pc = "optimize"
    /\ Len(optimized_models) >= Len(compilers)
    /\ Len(optimized_models) < NumCandidates
    /\ \E out \in BackendOutcomes :
         LET pos == Len(optimized_models) + 1
             r == _optimize_with_optimizer(ExtraItems[pos - Len(compilers)], pos,
                                           None, debug_file, out, debug_log)
         IN  /\ optimized_models' = Append(optimized_models, r.pair)
             /\ attempts' = Append(attempts, r.attempt)
             /\ debug_log' = r.file
    /\ UNCHANGED <<hardware, ignore_compilers, compilers, extra_optimizers,
                   debug_file, debug_mode_attr, pc, return_all, result,
                   learner_vars, log_vars>>

\* Lines 182-183, once both comprehensions are exhausted.
OptimizeReturn ==
    /\ pc = "optimize"
    /\ Len(optimized_models) = NumCandidates
    /\ result' = SortAndReturnFirst(optimized_models)
    /\ optimized_models' = SortByScore(optimized_models)
    /\ pc' = "optimize_done"
    /\ UNCHANGED <<hardware, ignore_compilers, compilers, extra_optimizers,
                   debug_file, debug_mode_attr, return_all, attempts,
                   debug_log, learner_vars, log_vars>>

(***************************************************************************)
(* MultiCompilerOptimizer.optimize_on_custom_metric                        *)
(***************************************************************************)

CallCustom ==
    /\ pc = "idle"
    /\ pc' = "custom"
    /\ return_all' \in BOOLEAN
    /\ UNCHANGED <<hardware, ignore_compilers, compilers, extra_optimizers,
                   debug_file, debug_mode_attr, optimized_models, attempts,
                   result, debug_log, learner_vars, log_vars>>

\* Reading self.debug_mode (lines 224 and 236) on an instance without that
\* attribute raises AttributeError out of the call.
CustomAttributeError ==
    /\ pc = "custom"
    /\ Len(optimized_models) < NumCandidates
    /\ debug_mode_attr = "unset"
    /\ result' = Raised("AttributeError")
    /\ pc' = "custom_done"
    /\ UNCHANGED <<hardware, ignore_compilers, compilers, extra_optimizers,
                   debug_file, debug_mode_attr, return_all, optimized_models,
                   attempts, debug_log, learner_vars, log_vars>>

\* One element of the comprehension over self.compilers (lines 216-227):
\* metric_func is passed on, debug_file is not; debug_mode travels in kwargs
\* to the backend's optimize, whose outcome is open either way.
CustomCompilerStep ==
    /\ pc = "custom"
    /\ Len(optimized_models) < Len(compilers)
    /\ debug_mode_attr = "set"
    /\ \E out \in BackendOutcomes :
         LET pos == Len(optimized_models) + 1
             r == _optimize_with_compiler(compilers[pos], pos, "metric_func",
                                          None, out, debug_log)
         IN  /\ optimized_models' = Append(optimized_models, r.pair)
             /\ attempts' = Append(attempts, r.attempt)
             /\ debug_log' = r.file
    /\ UNCHANGED <<hardware, ignore_compilers, compilers, extra_optimizers,
                   debug_file, debug_mode_attr, pc, return_all, result,
                   learner_vars, log_vars>>

\* One element of the comprehension over self.extra_optimizers (lines
\* 228-239): neither metric_func nor debug_file is passed on.
CustomExtraStep ==
    /\ pc = "custom"
    /\ Len(optimized_models) >= Len(compilers)
    /\ Len(optimized_models) < NumCandidates
    /\ debug_mode_attr = "set"
    /\ \E out \in BackendOutcomes :
         LET pos == Len(optimized_models) + 1
             r == _optimize_with_optimizer(ExtraItems[pos - Len(compilers)], pos,
                                           None, None, out, debug_log)
         IN  /\ optimized_models' = Append(optimized_models, r.pair)
             /\ attempts' = Append(attempts, r.attempt)
             /\ debug_log' = r.file
    /\ UNCHANGED <<hardware, ignore_compilers, compilers, extra_optimizers,
                   debug_file, debug_mode_attr, pc, return_all, result,
                   learner_vars, log_vars>>

\* Lines 240-243, once both comprehensions are exhausted.
CustomReturn ==
    /\ pc = "custom"
    /\ Len(optimized_models) = NumCandidates
    /\ result' = IF return_all
                 THEN ReturnedList(optimized_models)
                 ELSE SortAndReturnFirst(optimized_models)
    /\ optimized_models' = IF return_all
                           THEN optimized_models
                           ELSE SortByScore(optimized_models)
    /\ pc' = "custom_done"
    /\ UNCHANGED <<hardware, ignore_compilers, compilers, extra_optimizers,
                   debug_file, debug_mode_attr, return_all, attempts,
                   debug_log, learner_vars, log_vars>>

\* usable that takes any list of extra optimizers, even an empty one, as enough.
usable_any_list == Len(compilers) > 0 \/ ~extra_optimizers.isNone

\* The property MultiCompilerOptimizer.usable.
usable ==
    Len(compilers) > 0
    \/ (~extra_optimizers.isNone /\ Len(extra_optimizers.items) > 0)

Next ==
    \/ CallOptimize
    \/ OptimizeCompilerStep
    \/ OptimizeExtraStep
    \/ OptimizeReturn
    \/ CallCustom
    \/ CustomAttributeError
    \/ CustomCompilerStep
    \/ CustomExtraStep
    \/ CustomReturn

Spec == Init /\ [][Next]_vars

(***************************************************************************)
(* The ONNX inference learners                                             *)
(***************************************************************************)

\* Largest number of input names a learner records.
MaxNames == 2
\* Largest number of output names a learner records.
MaxOutputs == 2
\* Largest number of tensors passed to one predict call.
MaxInputs == 3

\* What a tensor may hold.
TensorData == {"a", "b"}

InputNames(n) == [i \in 1..n |-> "input_" \o ToString(i)]

OutputNames(n) == [i \in 1..n |-> "output_" \o ToString(i)]

\* The three learner classes of ONNX_INFERENCE_LEARNERS, by tensor library.
ONNX_INFERENCE_LEARNERS ==
    ("torch" :> "PytorchONNXInferenceLearner")
    @@ ("tensorflow" :> "TensorflowONNXInferenceLearner")
    @@ ("numpy" :> "NumpyONNXInferenceLearner")

Tensor(lib, data) == [lib |-> lib, data |-> data]

\* ONNXInferenceLearner.__init__: the session is opened on the model the
\* names were recorded from, so its graph inputs are input_names.
InitLearner ==
    \E lib \in DOMAIN ONNX_INFERENCE_LEARNERS, n \in 1..MaxNames, m \in 1..MaxOutputs :
        learner = [framework |-> lib,
                   input_names |-> InputNames(n),
                   output_names |-> OutputNames(m)]

\* zip(names, arrays): stops at the shorter of the two.
Zip(names, arrays) ==
    LET n == IF Len(names) <= Len(arrays) THEN Len(names) ELSE Len(arrays)
    IN  [i \in 1..n |-> <<names[i], arrays[i]>>]

\* The dict built from a sequence of (key, value) pairs; a later pair wins.
DictOf(pairs) ==
    [k \in {pairs[i][1] : i \in 1..Len(pairs)} |->
        pairs[CHOOSE i \in 1..Len(pairs) :
                /\ pairs[i][1] = k
                /\ \A j \in (i + 1)..Len(pairs) : pairs[j][1] # k][2]]

\* InferenceSession.run(output_names, input_feed) of a session whose graph
\* inputs are `graph_inputs`: it rejects a feed that lacks a graph input and
\* otherwise gives one array per output name, computed from the feed.
SessionRun(graph_inputs, output_names, input_dict) ==
    IF \E i \in 1..Len(graph_inputs) : graph_inputs[i] \notin DOMAIN input_dict
    THEN [raises |-> TRUE, outputs |-> <<>>]
    ELSE [raises |-> FALSE,
          outputs |-> [i \in 1..Len(output_names) |->
                          Tensor("numpy", [output |-> output_names[i],
                                           feed |-> input_dict])]]

_predict_arrays(l, input_arrays) ==
    LET input_dict == DictOf(Zip(l.input_names, input_arrays))
    IN  [fed |-> input_dict,
         run |-> SessionRun(l.input_names, l.output_names, input_dict)]

\* The outcome of a predict call: what was passed, what reached the session
\* and what came back.
PredictOutcome(lib, input_tensors, r) ==
    [kind |-> IF r.run.raises THEN "raise" ELSE "return",
     inputs |-> input_tensors,
     fed |-> r.fed,
     outputs |-> [i \in 1..Len(r.run.outputs) |->
                     Tensor(lib, r.run.outputs[i].data)]]

\* PytorchONNXInferenceLearner.predict: tensor.cpu().detach().numpy() on the
\* way in, torch.from_numpy on the way out.
PytorchPredict(l, input_tensors) ==
    LET input_arrays == [i \in 1..Len(input_tensors) |->
                            Tensor("numpy", input_tensors[i].data)]
    IN  PredictOutcome("torch", input_tensors, _predict_arrays(l, input_arrays))

\* TensorflowONNXInferenceLearner.predict: tensor.numpy() on the way in,
\* tf.convert_to_tensor on the way out.
TensorflowPredict(l, input_tensors) ==
    LET input_arrays == [i \in 1..Len(input_tensors) |->
                            Tensor("numpy", input_tensors[i].data)]
    IN  PredictOutcome("tensorflow", input_tensors, _predict_arrays(l, input_arrays))

\* NumpyONNXInferenceLearner.predict: the arrays are passed as they are.
NumpyPredict(l, input_tensors) ==
    PredictOutcome("numpy", input_tensors, _predict_arrays(l, input_tensors))

\* The tensors a caller of a learner of library `lib` may pass.
InputTensors(lib) ==
    {[i \in 1..Len(s) |-> Tensor(lib, s[i])] : s \in SeqsUpTo(TensorData, MaxInputs)}

Predict ==
    /\ learner # NoLearnerObj
    /\ \E input_tensors \in InputTensors(learner.framework) :
         prediction' =
            CASE learner.framework = "torch" -> PytorchPredict(learner, input_tensors)
              [] learner.framework = "tensorflow" -> TensorflowPredict(learner, input_tensors)
              [] learner.framework = "numpy" -> NumpyPredict(learner, input_tensors)
    /\ UNCHANGED <<opt_vars, learner, log_vars>>

\* A learner on its own: no optimizer call is running.
InitPredict ==
    /\ hardware = [tvm |-> FALSE, cuda |-> FALSE, intel |-> FALSE]
    /\ ignore_compilers = NoneList
    /\ extra_optimizers = NoneList
    /\ compilers = InitCompilers(hardware, ignore_compilers)
    /\ debug_file = InitDebugFile(FALSE)
    /\ debug_mode_attr = "unset"
    /\ pc = "idle"
    /\ return_all = FALSE
    /\ optimized_models = <<>>
    /\ attempts = <<>>
    /\ result = NoResult
    /\ debug_log = EmptyFile
    /\ InitLearner
    /\ prediction = NoPrediction
    /\ calls = NoCalls
    /\ saved = <<>>

NextPredict == Predict

SpecPredict == InitPredict /\ [][NextPredict]_vars

(***************************************************************************)
(* The debug recorder under concurrent optimize calls                      *)
(*                                                                         *)
(* Several optimize calls on one instance share self.debug_file.  Each     *)
(* call sweeps the same candidates; _save_info is two file operations, the *)
(* read of the whole file and the rewrite of the whole file, and another   *)
(* call may run between them.                                              *)
(***************************************************************************)

\* The class of the optimizer attempted at position i of the sweep.
CandidateClass(i) ==
    IF i <= Len(compilers)
    THEN COMPILER_TO_OPTIMIZER_MAP[compilers[i]]
    ELSE ExtraItems[i - Len(compilers)]

\* Lines 65-69 of _save_info: the dict read from the file, {} if there is none.
_save_info_read(file) == IF file.exists THEN file.dict ELSE [k \in {} |-> ""]

\* Lines 70-72 of _save_info that forget the dict read.
_save_info_write_only_key(old_dict, optimizer, score) ==
    [exists |-> TRUE, dict |-> [k \in {optimizer} |-> ScoreStr(score)]]

\* Lines 70-72 of _save_info: set one key, rewrite the whole file.
_save_info_write(old_dict, optimizer, score) ==
    [exists |-> TRUE,
     dict |-> [k \in DOMAIN old_dict \cup {optimizer} |->
                 IF k = optimizer THEN ScoreStr(score) ELSE old_dict[k]]]

\* Call w runs the try block of _optimize_with_optimizer on its next backend
\* and enters _save_info up to the end of the read (lines 84-97, 98, 65-69).
SaveInfoRead(w) ==
    /\ debug_file # None
    /\ calls[w].phase = "idle"
    /\ calls[w].pos < NumCandidates
    /\ \E out \in BackendOutcomes :
         LET pos == calls[w].pos + 1
             r == _optimize_with_optimizer(CandidateClass(pos), pos, None,
                                           None, out, debug_log)
         IN  calls' = [calls EXCEPT ![w] =
                         [@ EXCEPT !.phase = "read",
                                   !.old_dict = _save_info_read(debug_log),
                                   !.optimizer = r.attempt.cls,
                                   !.latency = r.pair.score]]
    /\ UNCHANGED <<opt_vars, learner_vars, saved>>

\* Call w finishes _save_info: lines 70-72, then the runner returns.
SaveInfoWrite(w) ==
    /\ calls[w].phase = "read"
    /\ LET c == calls[w]
           new_file == _save_info_write(c.old_dict, c.optimizer, c.latency)
       IN  /\ debug_log' = new_file
           /\ calls' = [calls EXCEPT ![w] =
                          [pos |-> c.pos + 1,
                           phase |-> "idle",
                           old_dict |-> [k \in {} |-> ""],
                           optimizer |-> None,
                           latency |-> 0]]
           /\ saved' = Append(saved, [call |-> w, cls |-> c.optimizer,
                                      score |-> c.latency])
    /\ UNCHANGED <<hardware, ignore_compilers, compilers, extra_optimizers,
                   debug_file, debug_mode_attr, pc, return_all,
                   optimized_models, attempts, result, learner_vars>>

\* The extra optimizers of the instance the concurrent calls share: none,
\* one, or two (which may be of one class).
LogExtraArgs ==
    {NoneList}
    \cup {SomeList(<<a>>) : a \in ExtraOptimizerClasses}
    \cup {SomeList(<<a, b>>) : a, b \in ExtraOptimizerClasses}

\* One instance in debug mode on a machine that offers the baseline runtime
\* only, with up to two extra optimizers; no call has started.
InitLog ==
    /\ hardware = [tvm |-> FALSE, cuda |-> FALSE, intel |-> FALSE]
    /\ ignore_compilers = NoneList
    /\ extra_optimizers \in LogExtraArgs
    /\ compilers = InitCompilers(hardware, ignore_compilers)
    /\ debug_file = InitDebugFile(TRUE)
    /\ debug_mode_attr = "unset"
    /\ pc = "idle"
    /\ return_all = FALSE
    /\ optimized_models = <<>>
    /\ attempts = <<>>
    /\ result = NoResult
    /\ debug_log = EmptyFile
    /\ learner = NoLearnerObj
    /\ prediction = NoPrediction
    /\ calls = NoCalls
    /\ saved = <<>>

NextLog ==
    \/ \E w \in Callers : SaveInfoRead(w)
    \/ \E w \in Callers : SaveInfoWrite(w)

SpecLog == InitLog /\ [][NextLog]_vars

(***************************************************************************)
(* Properties of the multi-compiler optimizer                              *)
(***************************************************************************)

\* The probed backends with the ignored ones removed, in probing order,
\* from the constructor's inputs.
ProbedMinusIgnored ==
    SelectSeq(select_compilers_from_hardware(hardware),
              LAMBDA c : ignore_compilers.isNone \/ c \notin ignore_compilers.items)

\* The extra optimizers supplied, in the order supplied (none for None).
SuppliedExtras == IF extra_optimizers.isNone THEN <<>> ELSE extra_optimizers.items

\* The optimizer classes a sweep has to attempt, in discovery order.
DiscoveryOrder ==
    [i \in 1..Len(ProbedMinusIgnored) |-> COMPILER_TO_OPTIMIZER_MAP[ProbedMinusIgnored[i]]]
    \o SuppliedExtras

AllAttemptsRaised == \A i \in 1..Len(attempts) : attempts[i].raised

SomeAttemptSucceeded == \E i \in 1..Len(attempts) : ~attempts[i].raised

\* Attempt i has the least recorded score of all attempts.
HasMinScore(i) == \A j \in 1..Len(attempts) : attempts[i].score <= attempts[j].score

\* The learner built by attempt i.
LearnerOf(i) == [cls |-> attempts[i].cls, pos |-> i]

\* C1: for every probed-minus-ignored list and every list of extra
\* optimizers, whatever each backend does, optimize returns None if all
\* attempted backends failed and otherwise returns the learner whose recorded
\* score is the minimum over all attempted backends.
C1_OptimizeReturnsMinOrNone ==
    pc = "optimize_done" =>
        /\ Len(attempts) = Len(DiscoveryOrder)
        /\ IF AllAttemptsRaised
           THEN result = Returned(NoneLearner)
           ELSE /\ result.kind = "return"
                /\ \E i \in 1..Len(attempts) :
                     /\ ~attempts[i].raised
                     /\ HasMinScore(i)
                     /\ result.learner = LearnerOf(i)

\* C1 restricted to sweeps with at least one candidate.
C1_MinOrNoneWithCandidates ==
    (pc = "optimize_done" /\ Len(DiscoveryOrder) > 0) =>
        /\ Len(attempts) = Len(DiscoveryOrder)
        /\ IF AllAttemptsRaised
           THEN result = Returned(NoneLearner)
           ELSE /\ result.kind = "return"
                /\ \E i \in 1..Len(attempts) :
                     /\ ~attempts[i].raised
                     /\ HasMinScore(i)
                     /\ result.learner = LearnerOf(i)

\* C2: a backend that raises gets the pair (None, +infinity) and is never
\* the one selected by optimize, nor by optimize_on_custom_metric with
\* return_all=False, when another attempted backend succeeded.
C2_FailedNeverSelected ==
    /\ \A i \in 1..Len(attempts) :
         attempts[i].raised =>
            /\ attempts[i].learner = NoneLearner
            /\ attempts[i].score = Inf
            /\ i <= Len(optimized_models) /\ pc \in {"optimize", "custom"}
                 => optimized_models[i] = [learner |-> NoneLearner, score |-> Inf]
    /\ (/\ pc \in {"optimize_done", "custom_done"}
        /\ result.kind # "return_list"
        /\ SomeAttemptSucceeded)
         => /\ result.kind = "return"
            /\ result.learner # NoneLearner
            /\ result.learner.pos \in 1..Len(attempts)
            /\ ~attempts[result.learner.pos].raised
            /\ result.learner = LearnerOf(result.learner.pos)

\* C2 witness: optimize has returned after a sweep whose first backend
\* raised and whose last backend succeeded with the largest finite score.
C2_Witness ==
    /\ pc = "optimize_done"
    /\ Len(attempts) >= 2
    /\ attempts[1].raised
    /\ ~attempts[Len(attempts)].raised
    /\ attempts[Len(attempts)].score = MaxScore
    /\ result.kind = "return"

\* C3: optimize called with zero candidates returns None instead of raising.
C3_ZeroCandidatesReturnNone ==
    (pc = "optimize_done" /\ Len(DiscoveryOrder) = 0) => result = Returned(NoneLearner)

\* C4: in optimize_on_custom_metric every attempted backend, probed or
\* extra, is scored with the caller's metric_func and never with the default
\* latency benchmark.
C4_CustomMetricScoresAll ==
    pc \in {"custom", "custom_done"} =>
        \A i \in 1..Len(attempts) : attempts[i].metric = "metric_func"

\* C5: optimize_on_custom_metric with return_all=True returns the list of
\* one (learner, score) pair per attempted backend, in discovery order,
\* unsorted and unfiltered.
C5_ReturnAllListsEveryAttempt ==
    (pc = "custom_done" /\ return_all) =>
        /\ result.kind = "return_list"
        /\ Len(result.list) = Len(DiscoveryOrder)
        /\ \A i \in 1..Len(result.list) :
             /\ attempts[i].cls = DiscoveryOrder[i]
             /\ result.list[i] = [learner |-> attempts[i].learner,
                                  score |-> attempts[i].score]

\* C5 for an instance that does carry an attribute debug_mode.
C5_ReturnAllWithAttribute ==
    (pc = "custom_done" /\ return_all /\ debug_mode_attr = "set") =>
        /\ result.kind = "return_list"
        /\ Len(result.list) = Len(DiscoveryOrder)
        /\ \A i \in 1..Len(result.list) :
             /\ attempts[i].cls = DiscoveryOrder[i]
             /\ result.list[i] = [learner |-> attempts[i].learner,
                                  score |-> attempts[i].score]

\* The optimizer classes among the backends to attempt.
DiscoveryClasses == {DiscoveryOrder[i] : i \in 1..Len(DiscoveryOrder)}

C7_SweepCompletes ==
    /\ pc = "optimize" => result.kind = "none"
    /\ pc = "optimize_done" =>
         /\ result.exc # "BackendError"
         /\ Len(attempts) = Len(DiscoveryOrder)
         /\ \A i \in 1..Len(attempts) : attempts[i].cls = DiscoveryOrder[i]
         /\ Len(attempts) > 0 => result.kind = "return"

\* C7 witness: optimize has returned after the first probed backend raised
\* and a later probed backend and an extra optimizer were still attempted.
C7_Witness ==
    /\ pc = "optimize_done"
    /\ result.kind = "return"
    /\ Len(compilers) >= 2
    /\ Len(attempts) > Len(compilers)
    /\ attempts[1].raised
    /\ ~attempts[2].raised
    /\ attempts[Len(attempts)].raised

\* C8: when several attempted backends share the minimum score, optimize
\* returns the learner of the first of them in discovery order (probed
\* backends in probing order without the ignored ones, then the extra
\* optimizers as supplied).
C8_TieGoesToFirst ==
    (pc = "optimize_done" /\ SomeAttemptSucceeded) =>
        /\ result.kind = "return"
        /\ \A i \in 1..Len(attempts) : attempts[i].cls = DiscoveryOrder[i]
        /\ \E i \in 1..Len(attempts) :
             /\ HasMinScore(i)
             /\ \A j \in 1..(i - 1) : attempts[j].score > attempts[i].score
             /\ result.learner = LearnerOf(i)

\* C8 witness: a probed backend and an extra optimizer tie at the minimum
\* score, after a probed backend with a larger score, and optimize has
\* returned the learner of the earlier of the two.
C8_Witness ==
    /\ pc = "optimize_done"
    /\ \E i, j \in 2..Len(attempts) :
         /\ i <= Len(compilers)
         /\ j > Len(compilers)
         /\ ~attempts[i].raised
         /\ attempts[i].score = attempts[j].score
         /\ attempts[1].score > attempts[i].score
         /\ HasMinScore(i)
         /\ result.learner = LearnerOf(i)

\* C9: usable is false exactly when the probed-minus-ignored list is empty
\* and no extra optimizer was supplied (None or an empty list).
C9_UsableIffCandidates ==
    usable <=> ~(Len(ProbedMinusIgnored) = 0 /\ Len(SuppliedExtras) = 0)

\* C9 witness: every probed backend is ignored on a machine that offers more
\* than the baseline, and an empty list of extra optimizers was supplied:
\* usable is false.
C9_Witness ==
    /\ ~usable
    /\ hardware.cuda
    /\ ~ignore_compilers.isNone
    /\ ~extra_optimizers.isNone

(***************************************************************************)
(* Properties of the ONNX inference learners                               *)
(***************************************************************************)

\* C10: predict called with a number of input tensors different from the
\* number of recorded input_names, fewer or more, fails.
C10_ArityMismatchFails ==
    (prediction.kind # "none" /\ Len(prediction.inputs) # Len(learner.input_names))
        => prediction.kind = "raise"

\* With fewer tensors than input_names the call fails.
C10_FewerInputsFail ==
    (prediction.kind # "none" /\ Len(prediction.inputs) < Len(learner.input_names))
        => prediction.kind = "raise"

\* With more tensors than input_names the call returns outputs computed
\* from the first len(input_names) tensors only.
C10_MoreInputsTruncated ==
    (prediction.kind # "none" /\ Len(prediction.inputs) > Len(learner.input_names))
        => /\ prediction.kind = "return"
           /\ Cardinality(DOMAIN prediction.fed) = Len(learner.input_names)
           /\ \A i \in 1..Len(learner.input_names) :
                prediction.fed[learner.input_names[i]].data = prediction.inputs[i].data

(***************************************************************************)
(* Properties of the debug recorder                                        *)
(***************************************************************************)

\* Call w is the only one that has started.
SingleWriter(w) == \A v \in Callers \ {w} : calls[v] = IdleCall

\* The optimizer classes with a saved scored attempt.
SavedClasses == {saved[i].cls : i \in 1..Len(saved)}

\* The latest save for class k: who saved it and which score.
MostRecentSave(k) ==
    saved[CHOOSE i \in 1..Len(saved) :
            /\ saved[i].cls = k
            /\ \A j \in (i + 1)..Len(saved) : saved[j].cls # k]

\* Both calls have finished their sweep.
AllCallsFinished ==
    \A w \in Callers : calls[w].pos = NumCandidates /\ calls[w].phase = "idle"

\* C11: the debug log is rewritten whole from an unlocked read.  With a
\* single writer, after any sequence of scored attempts the file maps each
\* attempted class name to the string of its most recent score; with two
\* calls the last full-file writer wins: the key it set holds its score,
\* whatever the other call saved in between (the lost update itself is the
\* state C11_LostUpdate).
C11_LogHoldsMostRecentScores ==
    /\ \A w \in Callers :
         SingleWriter(w) =>
            /\ debug_log.exists <=> Len(saved) > 0
            /\ Len(saved) = calls[w].pos
            /\ DOMAIN _save_info_read(debug_log) = SavedClasses
            /\ \A k \in SavedClasses :
                 debug_log.dict[k] = ScoreStr(MostRecentSave(k).score)
    /\ Len(saved) > 0 =>
         LET last == saved[Len(saved)]
         IN  /\ debug_log.exists
             /\ last.cls \in DOMAIN debug_log.dict
             /\ debug_log.dict[last.cls] = ScoreStr(last.score)

\* C11 witness: two interleaved optimize calls on one debug-log path have
\* both finished, and the entry one of them saved last for some class is
\* missing from the final file: the file holds an older score for that
\* class, carried over by the other call's rewrite of the whole file.
C11_LostUpdate ==
    /\ AllCallsFinished
    /\ \E k \in SavedClasses :
         /\ MostRecentSave(k).call # saved[Len(saved)].call
         /\ k \in DOMAIN debug_log.dict
         /\ debug_log.dict[k] # ScoreStr(MostRecentSave(k).score)

\* A single writer has saved three attempts, two of them of one class with
\* different scores.
C11_SingleWriterOverwrites ==
    /\ SingleWriter(1)
    /\ Len(saved) = 3
    /\ \E i, j \in 1..3 :
         /\ i < j
         /\ saved[i].cls = saved[j].cls
         /\ saved[i].score # saved[j].score

\* Two calls on one instance sweep the same classes, so once both have
\* finished every saved class name is a key of the file; what an
\* interleaving can lose is the latest score of a class.
C11_FinalFileHasEveryClass ==
    AllCallsFinished => SavedClasses \subseteq DOMAIN _save_info_read(debug_log)

\* While a call is still running, a class name another call saved can be
\* absent from the file.
C11_KeyMissingMidway ==
    \E k \in SavedClasses : k \notin DOMAIN _save_info_read(debug_log)

====
